---------------------------- MODULE Spec2Model ----------------------------
(***************************************************************************)
(* A model of the layered configuration utilities of core/dbt/utils.py:    *)
(*   MultiDict   (a mapping view over a shared list of mappings),          *)
(*   deep_merge  (recursive merge, on a heap of Python objects),           *)
(*   fqn_search  (the generator walking a nested dict down an fqn),        *)
(*   deep_map    (keypath-aware map with cycle detection).                 *)
(* Each component has its own specification over its own variables; the    *)
(* variables of the other components stay at their idle values.            *)
(***************************************************************************)
EXTENDS Integers, Sequences, FiniteSets, TLC

VARIABLES
    lists,        \* MultiDict: the Python list objects, list id -> sequence of mappings
    callerList,   \* MultiDict: the id of the list the caller holds
    ctorArg,      \* MultiDict: what __init__ was given: "None" or "list"
    sources,      \* MultiDict: self.sources, the id of a list object
    latest,       \* MultiDict: history, key -> value of the latest source added with it
    op,           \* MultiDict: history, the last operation and the mappings it added
    fqRoot,       \* fqn_search: the root argument
    fqFqn,        \* fqn_search: the fqn argument
    fqCur,        \* fqn_search: the local variable root (the current level)
    fqIdx,        \* fqn_search: the position of the for loop in fqn
    fqOut,        \* fqn_search: the values yielded so far
    fqPc,         \* fqn_search: the generator's position
    mgHeap,       \* deep_merge: the heap, address -> dict or list object
    mgArgs,       \* deep_merge: the arguments (references into the heap)
    mgRet,        \* deep_merge: what the call returned or raised
    mgPc,         \* deep_merge: the caller's position
    dmHeap,       \* deep_map: the heap the value lives in
    dmValue,      \* deep_map: the value argument
    dmFunc,       \* deep_map: the func argument (which function it is)
    dmRet,        \* deep_map: what the call returned or raised
    dmPc          \* deep_map: the caller's position

mdVars == <<lists, callerList, ctorArg, sources, latest, op>>

fqVars == <<fqRoot, fqFqn, fqCur, fqIdx, fqOut, fqPc>>

mgVars == <<mgHeap, mgArgs, mgRet, mgPc>>

dmVars == <<dmHeap, dmValue, dmFunc, dmRet, dmPc>>

vars == <<mdVars, fqVars, mgVars, dmVars>>

\* What each component leaves alone: the other components' variables.
notMd == <<fqVars, mgVars, dmVars>>
notFq == <<mdVars, mgVars, dmVars>>
notMg == <<mdVars, fqVars, dmVars>>
notDm == <<mdVars, fqVars, mgVars>>

---------------------------------------------------------------------------
(* Bounds of the model *)

\* the most mappings all list objects hold together
MaxSources == 3
\* the most mappings one add_from call passes
MaxBatch == 2

Keys == {"a", "b"}
Values == {1, 2}

\* The mappings over Keys: every function from a subset of Keys to Values.
StringMaps == UNION {[d -> Values] : d \in SUBSET Keys}

\* The sequences over S of length at most n.
SeqsUpTo(S, n) == UNION {[1..k -> S] : k \in 0..n}

---------------------------------------------------------------------------
(* MultiDict *)

\* The object a MultiDict method runs on: the list its self.sources refers to.
Self == lists[sources]

\* Total number of mappings held by the list objects.
Held == Len(lists[1]) + Len(lists[2])

MultiDictInitCopy(arg, heap) ==
    [sources |-> 2, lists |-> [heap EXCEPT ![2] = IF arg = 0 THEN <<>> ELSE heap[arg]]]

\* __init__: with None a new empty list (object 2), else the reference given.
MultiDictInit(arg, heap) ==
    IF arg = 0
    THEN [sources |-> 2, lists |-> [heap EXCEPT ![2] = <<>>]]
    ELSE [sources |-> arg, lists |-> heap]

ListAppend(l, source) == Append(l, source)

ListExtend(l, srcs) == l \o srcs

\* reversed(l)
Reversed(l) == [i \in 1..Len(l) |-> l[Len(l) + 1 - i]]

ItersourceForward(srcs) == srcs

\* _itersource: reversed(self.sources)
_itersource(srcs) == Reversed(srcs)

RECURSIVE KeysetLoop(_, _)
KeysetLoop(entries, keys) ==
    IF entries = <<>> THEN keys
    ELSE KeysetLoop(Tail(entries), keys \cup DOMAIN Head(entries))

\* _keyset: keys = set(); for entry in self._itersource(): keys.update(entry)
_keyset(srcs) == KeysetLoop(_itersource(srcs), {})

RECURSIVE SetToSeq(_)
SetToSeq(S) ==
    IF S = {} THEN <<>>
    ELSE LET x == CHOOSE y \in S : TRUE IN <<x>> \o SetToSeq(S \ {x})

\* __iter__: iter(self._keyset()), the keys of the set in some order
iter(srcs) == SetToSeq(_keyset(srcs))

RECURSIVE SumSizes(_)
SumSizes(entries) ==
    IF entries = <<>> THEN 0
    ELSE Cardinality(DOMAIN Head(entries)) + SumSizes(Tail(entries))

LenSum(srcs) == SumSizes(srcs)

\* __len__: len(self._keyset())
len(srcs) == Cardinality(_keyset(srcs))

RECURSIVE GetitemLoop(_, _)
GetitemLoop(entries, name) ==
    IF entries = <<>> THEN [err |-> "KeyError"]
    ELSE IF name \in DOMAIN Head(entries) THEN [val |-> Head(entries)[name]]
    ELSE GetitemLoop(Tail(entries), name)

\* __getitem__: the first entry of _itersource() holding name, else KeyError
getitem(srcs, name) == GetitemLoop(_itersource(srcs), name)

\* __contains__: any(name in entry for entry in self._itersource())
contains(srcs, name) ==
    \E i \in 1..Len(_itersource(srcs)) : name \in DOMAIN _itersource(srcs)[i]

\* History: the value each key was last added with, after adding srcs in order.
RECURSIVE Record(_, _)
Record(hist, srcs) ==
    IF srcs = <<>> THEN hist
    ELSE Record(Head(srcs) @@ hist, Tail(srcs))

MDStart ==
    /\ callerList = 1
    /\ ctorArg \in {"None", "list"}
    /\ \E initial \in SeqsUpTo(StringMaps, 1) :
         LET heap == [i \in {1, 2} |-> IF i = 1 THEN initial ELSE <<>>]
             made == MultiDictInit(IF ctorArg = "None" THEN 0 ELSE 1, heap)
         IN /\ lists = made.lists
            /\ sources = made.sources
            /\ latest = Record(<<>>, made.lists[made.sources])
    /\ op = [name |-> "init", added |-> <<>>]

\* add(source): self.sources.append(source)
Add(source) ==
    /\ Held < MaxSources
    /\ lists' = [lists EXCEPT ![sources] = ListAppend(@, source)]
    /\ latest' = Record(latest, <<source>>)
    /\ op' = [name |-> "add", added |-> <<source>>]
    /\ UNCHANGED <<callerList, ctorArg, sources, notMd>>

\* add_from(sources): self.sources.extend(sources)
AddFrom(srcs) ==
    /\ Held + Len(srcs) <= MaxSources
    /\ lists' = [lists EXCEPT ![sources] = ListExtend(@, srcs)]
    /\ latest' = Record(latest, srcs)
    /\ op' = [name |-> "add_from", added |-> srcs]
    /\ UNCHANGED <<callerList, ctorArg, sources, notMd>>

\* The caller appends a mapping to the list it holds (no MultiDict code runs).
CallerAppend(source) ==
    /\ Held < MaxSources
    /\ lists' = [lists EXCEPT ![callerList] = Append(@, source)]
    /\ latest' = IF sources = callerList THEN Record(latest, <<source>>) ELSE latest
    /\ op' = [name |-> "caller_append", added |-> <<source>>]
    /\ UNCHANGED <<callerList, ctorArg, sources, notMd>>

MDNext ==
    \/ \E source \in StringMaps : Add(source)
    \/ \E srcs \in SeqsUpTo(StringMaps, MaxBatch) : AddFrom(srcs)
    \/ \E source \in StringMaps : CallerAppend(source)

\* The MultiDict before it is constructed (the other components' runs).
MDIdle ==
    /\ lists = <<<<>>, <<>>>> /\ callerList = 1 /\ ctorArg = "None"
    /\ sources = 2 /\ latest = <<>> /\ op = [name |-> "init", added |-> <<>>]


---------------------------------------------------------------------------
(* MultiDict: properties *)

\* The keys held by at least one of the sources.
AllKeys(srcs) == UNION {DOMAIN srcs[i] : i \in 1..Len(srcs)}

\* C1: for every key, lookup returns the value of the most recently added
\* source that holds the key (after add_from, the last mapping of the batch
\* that holds it), and raises KeyError exactly when no source holds the key.
C1_LookupLatestWins ==
    \A k \in Keys :
        /\ k \in DOMAIN latest => getitem(Self, k) = [val |-> latest[k]]
        /\ (getitem(Self, k) = [err |-> "KeyError"])
               <=> ~ \E i \in 1..Len(Self) : k \in DOMAIN Self[i]
        /\ (op.name \in {"add", "add_from"} /\ op.added # <<>>
               /\ k \in DOMAIN op.added[Len(op.added)])
             => getitem(Self, k) = [val |-> op.added[Len(op.added)][k]]

\* C1 witness: add_from passed two mappings that give "a" different values,
\* lookup of "a" returns the second one's, and lookup of "b" raises KeyError.
C1_Witness ==
    /\ op.name = "add_from" /\ Len(op.added) = 2 /\ Len(Self) = 3
    /\ "a" \in DOMAIN op.added[1] /\ "a" \in DOMAIN op.added[2]
    /\ "a" \in DOMAIN Self[1]
    /\ op.added[1]["a"] # op.added[2]["a"]
    /\ getitem(Self, "a") = [val |-> op.added[2]["a"]]
    /\ getitem(Self, "b") = [err |-> "KeyError"]

\* C2: iteration yields exactly the union of the sources' keys, each key
\* once, and the length is the size of that union.
C2_KeysAreUnion ==
    LET it == iter(Self) IN
    /\ {it[i] : i \in 1..Len(it)} = AllKeys(Self)
    /\ \A i, j \in 1..Len(it) : i # j => it[i] # it[j]
    /\ len(Self) = Cardinality(AllKeys(Self))

\* C2 witness: three sources all define "a", so the length (1) is less than
\* the sum of the source sizes (3).
C2_Witness ==
    /\ Len(Self) = 3
    /\ \A i \in 1..3 : DOMAIN Self[i] = {"a"}
    /\ len(Self) = 1 /\ SumSizes(Self) = 3 /\ iter(Self) = <<"a">>

\* C10: a MultiDict constructed over the caller's list keeps referring to
\* that list: every operation's mappings are appended to the list the
\* caller holds, nothing in it is removed or reordered, and a mapping the
\* caller appends is the highest-priority source of the next lookup,
\* contains, keys and length.
C10_SharedSourceList ==
    [][/\ SubSeq(Self', 1, Len(Self)) = Self
       /\ ctorArg = "list" =>
         /\ lists'[callerList] = lists[callerList] \o op'.added
         /\ lists'[sources'] = lists'[callerList]
         /\ op'.name = "caller_append" =>
              LET m == op'.added[1] IN
              /\ \A k \in DOMAIN m :
                    /\ getitem(Self', k) = [val |-> m[k]]
                    /\ contains(Self', k)
              /\ \A k \in Keys \ DOMAIN m :
                    /\ getitem(Self', k) = getitem(Self, k)
                    /\ contains(Self', k) = contains(Self, k)
              /\ _keyset(Self') = _keyset(Self) \cup DOMAIN m
              /\ len(Self') = Cardinality(AllKeys(lists[callerList]) \cup DOMAIN m)
      ]_vars

\* C10 witness: the MultiDict was built over the caller's list, the caller
\* then appended a mapping that redefines "a", and lookup returns its value.
C10_Witness ==
    /\ ctorArg = "list" /\ op.name = "caller_append" /\ Len(Self) = 2
    /\ "a" \in DOMAIN Self[1] /\ "a" \in DOMAIN op.added[1]
    /\ Self[1]["a"] # op.added[1]["a"]
    /\ getitem(Self, "a") = [val |-> op.added[1]["a"]]
    /\ lists[callerList] = Self

---------------------------------------------------------------------------
(* Python values: a scalar [sc |-> n], None, a string [str |-> s], a list    *)
(* [seq |-> <<v, ...>>], a dict [map |-> f], and any other object [obj |-> n] *)

None == [none |-> TRUE]

IsNone(v) == "none" \in DOMAIN v
IsDict(v) == "map" \in DOMAIN v
IsList(v) == "seq" \in DOMAIN v
IsAtomic(v) == "sc" \in DOMAIN v \/ "str" \in DOMAIN v \/ IsNone(v)

\* The dicts whose keys are a subset of K and whose values are in V.
DictsOver(K, V) == {[map |-> f] : f \in UNION {[d -> V] : d \in SUBSET K}}

\* copy.deepcopy of a value: a structurally equal value built anew.
RECURSIVE DeepCopyValue(_)
DeepCopyValue(v) ==
    IF IsDict(v) THEN [map |-> [k \in DOMAIN v.map |-> DeepCopyValue(v.map[k])]]
    ELSE IF IsList(v) THEN [seq |-> [i \in 1..Len(v.seq) |-> DeepCopyValue(v.seq[i])]]
    ELSE v

---------------------------------------------------------------------------
(* fqn_search *)

\* the longest fqn passed
MaxFqn == 2

FqnLeaves == {[sc |-> 1], None, [seq |-> <<>>]}
FqnRoots == DictsOver(Keys, FqnLeaves \cup DictsOver(Keys, FqnLeaves))

\* root.get(level, None) on a dict
DictGet(d, level) == IF level \in DOMAIN d.map THEN d.map[level] ELSE None

DescendStay(root, level_config) == root

\* root = level_config
Descend(root, level_config) == level_config

FqStart ==
    /\ fqRoot \in FqnRoots
    /\ fqFqn \in SeqsUpTo(Keys, MaxFqn)
    /\ fqCur = fqRoot /\ fqIdx = 1 /\ fqOut = <<>> /\ fqPc = "start"

\* The first next(): yield root.
FqnYieldRoot ==
    /\ fqPc = "start"
    /\ fqOut' = Append(fqOut, fqRoot)
    /\ fqPc' = "loop"
    /\ UNCHANGED <<fqRoot, fqFqn, fqCur, fqIdx, notFq>>

\* A later next(): the loop runs to its next yield, to its end (the fqn is
\* exhausted, or level_config is None) or to the AttributeError raised by
\* root.get when root is not a dict.
FqnLevel ==
    /\ fqPc = "loop"
    /\ IF fqIdx > Len(fqFqn)
       THEN fqPc' = "done" /\ UNCHANGED <<fqCur, fqIdx, fqOut>>
       ELSE IF ~ IsDict(fqCur)
       THEN fqPc' = "AttributeError" /\ UNCHANGED <<fqCur, fqIdx, fqOut>>
       ELSE LET level_config == DictGet(fqCur, fqFqn[fqIdx]) IN
            IF IsNone(level_config)
            THEN fqPc' = "done" /\ UNCHANGED <<fqCur, fqIdx, fqOut>>
            ELSE /\ fqOut' = Append(fqOut, DeepCopyValue(level_config))
                 /\ fqCur' = Descend(fqCur, level_config)
                 /\ fqIdx' = fqIdx + 1
                 /\ fqPc' = "loop"
    /\ UNCHANGED <<fqRoot, fqFqn, notFq>>

FqIdle ==
    /\ fqRoot = None /\ fqFqn = <<>> /\ fqCur = None
    /\ fqIdx = 1 /\ fqOut = <<>> /\ fqPc = "idle"

FqNext == FqnYieldRoot \/ FqnLevel

\* The generator has ended: by returning or by raising.
FqEnded == fqPc \in {"done", "AttributeError"}

\* v is a dict that holds key s.
Holds(v, s) == IsDict(v) /\ s \in DOMAIN v.map

\* What every run yields, whatever stops it: root first, then the value at
\* each segment of the level before it, never more than len(fqn) + 1 values.
FqnPrefix ==
    /\ fqPc # "start" => Len(fqOut) >= 1 /\ fqOut[1] = fqRoot
    /\ Len(fqOut) <= Len(fqFqn) + 1
    /\ \A i \in 2..Len(fqOut) :
          /\ Holds(fqOut[i - 1], fqFqn[i - 1])
          /\ fqOut[i] = fqOut[i - 1].map[fqFqn[i - 1]]
    /\ (FqEnded /\ fqFqn = <<>>) => fqOut = <<fqRoot>>

\* C6 as stated: the sequence goes on whenever the current level is a
\* Mapping that contains the segment, whatever the value, so a run that ends
\* before the fqn is exhausted ends at a segment the level does not contain.
C6_Original ==
    /\ FqnPrefix
    /\ (FqEnded /\ Len(fqOut) <= Len(fqFqn))
         => ~ Holds(fqOut[Len(fqOut)], fqFqn[Len(fqOut)])

\* C6 amended: fqn_search yields root first and then, for each segment s of
\* fqn in order, the value at s of the current level whenever the current
\* level is a Mapping that contains s with a value other than None,
\* descending into it; at the first segment that the current level does not
\* contain, or holds None at, it yields nothing more.  At most len(fqn) + 1
\* values are yielded, exactly one (root) when fqn is empty.
C6_YieldsLevels ==
    /\ FqnPrefix
    /\ \A i \in 2..Len(fqOut) : ~ IsNone(fqOut[i])
    /\ (FqEnded /\ Len(fqOut) <= Len(fqFqn))
         => \/ ~ Holds(fqOut[Len(fqOut)], fqFqn[Len(fqOut)])
            \/ IsNone(fqOut[Len(fqOut)].map[fqFqn[Len(fqOut)]])

\* C6 witness: a run over a two-segment fqn that yielded root and the dict at
\* the first segment, and ended at the second segment, which that dict
\* holds with the value None.
C6_Witness ==
    /\ fqPc = "done" /\ Len(fqFqn) = 2 /\ Len(fqOut) = 2
    /\ fqOut[2] = fqRoot.map[fqFqn[1]]
    /\ Holds(fqOut[2], fqFqn[2]) /\ IsNone(fqOut[2].map[fqFqn[2]])

\* C8: when the descent reaches a value that is not a Mapping and segments
\* remain, the sequence ends there without an error.
C8_StopsAtNonMapping ==
    (fqPc \notin {"start", "loop"} /\ ~ IsDict(fqCur) /\ fqIdx <= Len(fqFqn))
        => fqPc = "done" /\ fqOut[Len(fqOut)] = fqCur

---------------------------------------------------------------------------
(* deep_map, on a heap of objects that may refer to each other in cycles *)

\* the number of container objects of the heap deep_map is given
MaxObjs == 2

\* The interpreter's recursion limit, counted in nested _deep_map calls:
\* deeper than any value of the model that has no cycle.
RecursionLimit == MaxObjs + 2

IsRef(v) == "ref" \in DOMAIN v
IsErr(r) == "err" \in DOMAIN r

DmAddrs == 1..MaxObjs
DmItems == {[sc |-> 1], None} \cup {[ref |-> a] : a \in DmAddrs}
\* An object: a list, a dict, or an object of another type (a tuple, a set).
DmCells == {[seq |-> q] : q \in SeqsUpTo(DmItems, 2)}
             \cup DictsOver(Keys, DmItems) \cup {[obj |-> 0]}

\* str(k), a Python str value
PyStr(k) == [str |-> k]

EnumerateFromOne(i) == [sc |-> i]

\* The idx enumerate() gives the i-th element, a Python int counted from 0.
Enumerate(i) == [sc |-> i - 1]

\* func(value, keypath): "tag" returns the pair of its arguments (no func
\* tells more about them), "same" returns value.
Func(func, value, keypath) ==
    IF func = "tag" THEN [v |-> value, p |-> keypath] ELSE value

\* The messages of the RecursionError the interpreter raises, in words.
RecursionMessages ==
    {<<"maximum", "recursion", "depth", "exceeded">>,
     <<"maximum", "recursion", "depth", "exceeded", "in", "comparison">>,
     <<"maximum", "recursion", "depth", "exceeded", "while", "calling",
       "a", "Python", "object">>}

\* The keys of a dict in the order its items are visited.
KeyOrder(f) == SetToSeq(DOMAIN f)

RECURSIVE _deep_map(_, _, _, _, _, _)
RECURSIVE DeepMapList(_, _, _, _, _, _, _, _)
RECURSIVE DeepMapDict(_, _, _, _, _, _, _, _)

\* [_deep_map(func, v, keypath + (idx,)) for idx, v in enumerate(value)]
DeepMapList(heap, func, items, keypath, i, ret, depth, msg) ==
    IF i > Len(items) THEN [val |-> [seq |-> ret]]
    ELSE LET r == _deep_map(heap, func, items[i],
                            keypath \o <<Enumerate(i)>>, depth + 1, msg)
         IN IF IsErr(r) THEN r
            ELSE DeepMapList(heap, func, items, keypath, i + 1,
                             Append(ret, r.val), depth, msg)

\* {k: _deep_map(func, v, keypath + (str(k),)) for k, v in value.items()}
DeepMapDict(heap, func, f, keypath, ks, ret, depth, msg) ==
    IF ks = <<>> THEN [val |-> [map |-> ret]]
    ELSE LET k == Head(ks)
             r == _deep_map(heap, func, f[k],
                            keypath \o <<PyStr(k)>>, depth + 1, msg)
         IN IF IsErr(r) THEN r
            ELSE DeepMapDict(heap, func, f, keypath, Tail(ks),
                             (k :> r.val) @@ ret, depth, msg)

\* _deep_map(func, value, keypath), as the depth-th nested call; a call
\* beyond the recursion limit raises RecursionError (a RuntimeError).
_deep_map(heap, func, value, keypath, depth, msg) ==
    IF depth > RecursionLimit
    THEN [err |-> "RecursionError", msg |-> msg]
    ELSE IF IsRef(value) /\ IsList(heap[value.ref])
    THEN DeepMapList(heap, func, heap[value.ref].seq, keypath, 1, <<>>, depth, msg)
    ELSE IF IsRef(value) /\ IsDict(heap[value.ref])
    THEN DeepMapDict(heap, func, heap[value.ref].map, keypath,
                     KeyOrder(heap[value.ref].map), <<>>, depth, msg)
    ELSE IF IsAtomic(value)
    THEN [val |-> Func(func, value, keypath)]
    ELSE [err |-> "DbtConfigError", msg |-> <<"in", "_deep_map", "expected", "one", "of">>]

\* needle in str(exc), on texts as sequences of words
InText(needle, text) ==
    \E i \in 0..(Len(text) - Len(needle)) :
        SubSeq(text, i + 1, i + Len(needle)) = needle

\* except RuntimeError: RecursionError is a subclass of RuntimeError; the
\* DbtConfigError of dbt.exceptions is taken to be caught too, so that its
\* text decides what becomes of it.
IsRuntimeError(r) ==
    IsErr(r) /\ r.err \in {"RuntimeError", "RecursionError", "DbtConfigError"}

IsRecursionMessageNever(text) == FALSE

\* 'maximum recursion depth exceeded' in str(exc)
IsRecursionMessage(text) ==
    InText(<<"maximum", "recursion", "depth", "exceeded">>, text)

\* deep_map(func, value); msg is the text the interpreter gives a
\* RecursionError it raises.
deep_map(heap, func, value, msg) ==
    LET r == _deep_map(heap, func, value, <<>>, 1, msg) IN
    IF IsRuntimeError(r)
    THEN IF IsRecursionMessage(r.msg)
         THEN [err |-> "RecursionException", msg |-> <<"Cycle", "detected", "in", "deep_map">>]
         ELSE r
    ELSE r

\* The caller holds a heap of objects and passes its first object, or holds
\* no object and passes a scalar.
DmStart ==
    /\ \/ dmHeap \in [DmAddrs -> DmCells] /\ dmValue = [ref |-> 1]
       \/ dmHeap = <<>> /\ dmValue \in {[sc |-> 1], None}
    /\ dmFunc = "none" /\ dmRet = None /\ dmPc = "call"

DeepMapCall ==
    /\ dmPc = "call"
    /\ \E func \in {"tag", "same"}, msg \in RecursionMessages :
          /\ dmFunc' = func
          /\ dmRet' = deep_map(dmHeap, func, dmValue, msg)
    /\ dmPc' = "done"
    /\ UNCHANGED <<dmHeap, dmValue, notDm>>

DmNext == DeepMapCall

---------------------------------------------------------------------------
(* The objects of a heap that a value reaches, and the tree it stands for *)

\* The objects an object's items refer to.
Children(heap, a) ==
    IF IsList(heap[a]) THEN {heap[a].seq[i].ref : i \in {j \in 1..Len(heap[a].seq) : IsRef(heap[a].seq[j])}}
    ELSE IF IsDict(heap[a]) THEN {heap[a].map[k].ref : k \in {j \in DOMAIN heap[a].map : IsRef(heap[a].map[j])}}
    ELSE {}

RECURSIVE Closure(_, _)
Closure(heap, S) ==
    LET T == S \cup UNION {Children(heap, a) : a \in S}
    IN IF T = S THEN S ELSE Closure(heap, T)

\* The objects reachable from a value.
Reach(heap, value) == IF IsRef(value) THEN Closure(heap, {value.ref}) ELSE {}

\* The tree a value without cycles stands for.
RECURSIVE Unfold(_, _)
Unfold(heap, value) ==
    IF ~ IsRef(value) THEN value
    ELSE LET c == heap[value.ref] IN
         IF IsList(c) THEN [seq |-> [i \in 1..Len(c.seq) |-> Unfold(heap, c.seq[i])]]
         ELSE IF IsDict(c) THEN [map |-> [k \in DOMAIN c.map |-> Unfold(heap, c.map[k])]]
         ELSE c

---------------------------------------------------------------------------
(* deep_map: properties *)

\* Some container reachable from the value contains itself, directly or not.
Cyclic(heap, value) ==
    \E a \in Reach(heap, value) : a \in Closure(heap, Children(heap, a))

\* Every object reachable from the value is a list or a dict.
WellShaped(heap, value) ==
    \A a \in Reach(heap, value) : IsList(heap[a]) \/ IsDict(heap[a])

\* A tree with its leaves blanked: its Mapping keys, Sequence lengths and nesting.
RECURSIVE Shape(_)
Shape(t) ==
    IF IsList(t) THEN [seq |-> [i \in 1..Len(t.seq) |-> Shape(t.seq[i])]]
    ELSE IF IsDict(t) THEN [map |-> [k \in DOMAIN t.map |-> Shape(t.map[k])]]
    ELSE [leaf |-> TRUE]

\* The paths from the root of a tree to its leaves: a Mapping key is a str,
\* a Sequence index an int counted from 0.
RECURSIVE LeafPaths(_)
LeafPaths(t) ==
    IF IsList(t)
    THEN UNION {{<<[sc |-> i - 1]>> \o q : q \in LeafPaths(t.seq[i])} : i \in 1..Len(t.seq)}
    ELSE IF IsDict(t)
    THEN UNION {{<<[str |-> k]>> \o q : q \in LeafPaths(t.map[k])} : k \in DOMAIN t.map}
    ELSE {<<>>}

\* The subtree of t at a path.
RECURSIVE At(_, _)
At(t, path) ==
    IF path = <<>> THEN t
    ELSE IF "str" \in DOMAIN Head(path) THEN At(t.map[Head(path).str], Tail(path))
    ELSE At(t.seq[Head(path).sc + 1], Tail(path))

\* deep_map was called on a tree: no cycle, only lists, dicts and scalars.
DmOnTree == dmPc = "done" /\ ~ Cyclic(dmHeap, dmValue) /\ WellShaped(dmHeap, dmValue)

\* C7: deep_map returns a tree of the shape of its input in which every
\* Scalar leaf v is replaced by func(v, p), p being the tuple of Mapping keys
\* and Sequence indices from the root to the leaf (empty for a Scalar root);
\* with a func that returns v, the result equals the input.
C7_KeypathTransform ==
    DmOnTree =>
        LET tree == Unfold(dmHeap, dmValue) IN
        /\ ~ IsErr(dmRet)
        /\ Shape(dmRet.val) = Shape(tree)
        /\ LeafPaths(dmRet.val) = LeafPaths(tree)
        /\ \A p \in LeafPaths(tree) :
              At(dmRet.val, p) = IF dmFunc = "tag"
                                 THEN [v |-> At(tree, p), p |-> p]
                                 ELSE At(tree, p)
        /\ dmFunc = "same" => dmRet.val = tree

\* C7 witness: the input is {"a": [1, None]}-like, a dict holding a list of
\* two scalars, and the second one was passed the keypath ("a", 1).
C7_Witness ==
    /\ DmOnTree /\ dmFunc = "tag"
    /\ IsDict(dmHeap[1]) /\ DOMAIN dmHeap[1].map = {"a"}
    /\ dmHeap[1].map["a"] = [ref |-> 2]
    /\ dmHeap[2] = [seq |-> <<[sc |-> 1], None>>]
    /\ dmRet.val.map["a"].seq[2] = [v |-> None, p |-> <<[str |-> "a"], [sc |-> 1]>>]

\* C9: deep_map of a container that contains itself (all of whose objects
\* are lists and dicts) ends with RecursionException; that is another error
\* than the DbtConfigError raised for a value that is no list, dict or
\* scalar; and no call ends with the interpreter's own RecursionError.
C9_CycleDetected ==
    dmPc = "done" =>
        /\ IsErr(dmRet) => dmRet.err \in {"RecursionException", "DbtConfigError"}
        /\ Cyclic(dmHeap, dmValue) =>
              /\ IsErr(dmRet) /\ dmRet.err \in {"RecursionException", "DbtConfigError"}
              /\ WellShaped(dmHeap, dmValue) => dmRet.err = "RecursionException"
        /\ (~ Cyclic(dmHeap, dmValue) /\ ~ WellShaped(dmHeap, dmValue))
              => IsErr(dmRet) /\ dmRet.err = "DbtConfigError"
        /\ (IsErr(dmRet) /\ dmRet.err = "RecursionException") => Cyclic(dmHeap, dmValue)

\* C9 witness: the first object is a dict whose "a" is a list that holds the
\* dict, and the call ended with RecursionException.
C9_Witness ==
    /\ dmPc = "done"
    /\ dmHeap[1] = [map |-> [k \in {"a"} |-> [ref |-> 2]]]
    /\ dmHeap[2] = [seq |-> <<[sc |-> 1], [ref |-> 1]>>]
    /\ IsErr(dmRet) /\ dmRet.err = "RecursionException"

---------------------------------------------------------------------------
(* deep_merge, on a heap: a sequence of list and dict objects whose items   *)
(* are scalars or references [ref |-> address] to other objects             *)

\* the longest list in an argument of deep_merge
MaxSeqLen == 1

\* A new object at the next free address.
Alloc(h, cell) == [h |-> Append(h, cell), val |-> [ref |-> Len(h) + 1]]

Raise(h, exc) == [h |-> h, err |-> exc]

IsDictRef(h, v) == IsRef(v) /\ IsDict(h[v.ref])
IsListRef(h, v) == IsRef(v) /\ IsList(h[v.ref])

RECURSIVE DeepCopy(_, _)
RECURSIVE CopyList(_, _, _, _)
RECURSIVE CopyDict(_, _, _, _)

CopyList(h, items, i, acc) ==
    IF i > Len(items) THEN Alloc(h, [seq |-> acc])
    ELSE LET r == DeepCopy(h, items[i])
         IN CopyList(r.h, items, i + 1, Append(acc, r.val))

CopyDict(h, f, ks, acc) ==
    IF ks = <<>> THEN Alloc(h, [map |-> acc])
    ELSE LET r == DeepCopy(h, f[Head(ks)])
         IN CopyDict(r.h, f, Tail(ks), (Head(ks) :> r.val) @@ acc)

NoCopy(h, v) == [h |-> h, val |-> v]

\* copy.deepcopy(v): new objects for every list and dict reachable from v
DeepCopy(h, v) ==
    IF IsListRef(h, v) THEN CopyList(h, h[v.ref].seq, 1, <<>>)
    ELSE IF IsDictRef(h, v) THEN CopyDict(h, h[v.ref].map, KeyOrder(h[v.ref].map), <<>>)
    ELSE [h |-> h, val |-> v]

\* destination[key] = v, on a dict
SetItem(h, destination, key, v) ==
    [h EXCEPT ![destination.ref] = [map |-> (key :> v) @@ h[destination.ref].map]]

\* list(v) is defined for a list, a dict (its keys) and a str (its characters;
\* the strs of the model are one character long)
Iterable(h, v) == IsRef(v) \/ "str" \in DOMAIN v

ListOf(h, v) ==
    IF IsListRef(h, v) THEN h[v.ref].seq
    ELSE IF IsDictRef(h, v)
    THEN [i \in 1..Len(KeyOrder(h[v.ref].map)) |-> [str |-> KeyOrder(h[v.ref].map)[i]]]
    ELSE <<v>>

ConcatBehind(value_items, destination_items) == destination_items \o value_items

\* list(value) + list(destination[key])
Concat(value_items, destination_items) == value_items \o destination_items

RECURSIVE deep_merge(_, _)
RECURSIVE _deep_merge(_, _, _)
RECURSIVE DeepMergeLoop(_, _, _, _)
RECURSIVE deep_merge_item(_, _, _, _)

\* deep_merge_item(destination, key, value); destination.setdefault, `in`
\* and item assignment raise on a destination that is not a dict
deep_merge_item(h, destination, key, value) ==
    IF IsDictRef(h, value)
    THEN IF ~ IsDictRef(h, destination) THEN Raise(h, "AttributeError")
         ELSE LET h1 == IF key \in DOMAIN h[destination.ref].map THEN h
                        ELSE SetItem(Alloc(h, [map |-> <<>>]).h, destination, key,
                                     Alloc(h, [map |-> <<>>]).val)
                  node == h1[destination.ref].map[key]
                  r == deep_merge(h1, <<node, value>>)
              IN IF IsErr(r) THEN r
                 ELSE [h |-> SetItem(r.h, destination, key, r.val), val |-> None]
    ELSE IF IsListRef(h, value)
    THEN IF ~ IsDictRef(h, destination) THEN Raise(h, "TypeError")
         ELSE IF key \in DOMAIN h[destination.ref].map
         THEN LET old == h[destination.ref].map[key] IN
              IF ~ Iterable(h, old) THEN Raise(h, "TypeError")
              ELSE LET new == Alloc(h, [seq |-> Concat(ListOf(h, value), ListOf(h, old))])
                   IN [h |-> SetItem(new.h, destination, key, new.val), val |-> None]
         ELSE [h |-> SetItem(h, destination, key, value), val |-> None]
    ELSE IF ~ IsDictRef(h, destination) THEN Raise(h, "TypeError")
    ELSE [h |-> SetItem(h, destination, key, value), val |-> None]

\* for key, value in source.items(): deep_merge_item(destination, key, value)
DeepMergeLoop(h, destination, source, ks) ==
    IF ks = <<>> THEN [h |-> h, val |-> destination]
    ELSE LET r == deep_merge_item(h, destination, Head(ks), h[source.ref].map[Head(ks)])
         IN IF IsErr(r) THEN r ELSE DeepMergeLoop(r.h, destination, source, Tail(ks))

\* _deep_merge(destination, source): None when source is no dict
_deep_merge(h, destination, source) ==
    IF IsDictRef(h, source)
    THEN DeepMergeLoop(h, destination, source, KeyOrder(h[source.ref].map))
    ELSE [h |-> h, val |-> None]

\* deep_merge(*args)
deep_merge(h, args) ==
    IF Len(args) = 0 THEN [h |-> h, val |-> None]
    ELSE IF Len(args) = 1 THEN DeepCopy(h, args[1])
    ELSE LET last == DeepCopy(h, args[Len(args)])
             merged == deep_merge(last.h, SubSeq(args, 1, Len(args) - 1))
         IN IF IsErr(merged) THEN merged
            ELSE _deep_merge(merged.h, merged.val, last.val)

\* The caller's arguments.  Every scalar of the i-th argument is i, so that a
\* result shows which argument each of its values came from.
MgItems(i) ==
    {[sc |-> i]} \cup {[seq |-> q] : q \in SeqsUpTo({[sc |-> i]}, MaxSeqLen)}
                 \cup DictsOver(Keys, {[sc |-> i]})

MgRoots(i, K) == DictsOver(K, MgItems(i))

\* One or two dicts over both keys, or three dicts over the key "a".
MgArgTrees ==
    {<<a>> : a \in MgRoots(1, Keys)}
      \cup {<<a, b>> : a \in MgRoots(1, Keys), b \in MgRoots(2, Keys)}
      \cup {<<a, b, c>> : a \in MgRoots(1, {"a"}), b \in MgRoots(2, {"a"}),
                          c \in MgRoots(3, {"a"})}

\* The caller builds a tree as objects of the heap.
RECURSIVE Build(_, _)
RECURSIVE BuildList(_, _, _, _)
RECURSIVE BuildDict(_, _, _, _)

BuildList(h, items, i, acc) ==
    IF i > Len(items) THEN Alloc(h, [seq |-> acc])
    ELSE LET r == Build(h, items[i])
         IN BuildList(r.h, items, i + 1, Append(acc, r.val))

BuildDict(h, f, ks, acc) ==
    IF ks = <<>> THEN Alloc(h, [map |-> acc])
    ELSE LET r == Build(h, f[Head(ks)])
         IN BuildDict(r.h, f, Tail(ks), (Head(ks) :> r.val) @@ acc)

Build(h, tree) ==
    IF IsList(tree) THEN BuildList(h, tree.seq, 1, <<>>)
    ELSE IF IsDict(tree) THEN BuildDict(h, tree.map, KeyOrder(tree.map), <<>>)
    ELSE [h |-> h, val |-> tree]

RECURSIVE BuildArgs(_, _, _, _)
BuildArgs(h, trees, i, refs) ==
    IF i > Len(trees) THEN [h |-> h, args |-> refs]
    ELSE LET r == Build(h, trees[i])
         IN BuildArgs(r.h, trees, i + 1, Append(refs, r.val))

\* The arguments are objects of their own, or one object passed twice.
MgStart ==
    /\ \/ \E trees \in MgArgTrees :
             LET built == BuildArgs(<<>>, trees, 1, <<>>)
             IN mgHeap = built.h /\ mgArgs = built.args
       \/ \E tree \in MgRoots(1, Keys) :
             LET built == Build(<<>>, tree)
             IN mgHeap = built.h /\ mgArgs = <<built.val, built.val>>
    /\ mgRet = None /\ mgPc = "call"

\* result = deep_merge(*args)
DeepMergeCall ==
    /\ mgPc = "call"
    /\ LET r == deep_merge(mgHeap, mgArgs) IN
          /\ mgHeap' = r.h
          /\ mgRet' = IF IsErr(r) THEN [err |-> r.err] ELSE [val |-> r.val]
    /\ mgPc' = "returned"
    /\ UNCHANGED <<mgArgs, notMg>>

\* The objects reachable from the arguments.
ArgObjects(h) == UNION {Reach(h, mgArgs[i]) : i \in 1..Len(mgArgs)}

\* What a caller does to an object later: append to a list, set a key of a dict.
Mutate(h, a) ==
    IF IsList(h[a]) THEN [h EXCEPT ![a] = [seq |-> Append(h[a].seq, [sc |-> 9])]]
    ELSE [h EXCEPT ![a] = [map |-> ("z" :> [sc |-> 9]) @@ h[a].map]]

\* After the call the caller mutates an object of an argument.
MutateArg ==
    /\ mgPc = "returned"
    /\ \E a \in ArgObjects(mgHeap) : mgHeap' = Mutate(mgHeap, a)
    /\ mgPc' = "argMutated"
    /\ UNCHANGED <<mgArgs, mgRet, notMg>>

\* After the call the caller mutates an object of the result.
MutateResult ==
    /\ mgPc = "returned" /\ ~ IsErr(mgRet)
    /\ \E a \in Reach(mgHeap, mgRet.val) : mgHeap' = Mutate(mgHeap, a)
    /\ mgPc' = "resultMutated"
    /\ UNCHANGED <<mgArgs, mgRet, notMg>>

MgNext == DeepMergeCall \/ MutateArg \/ MutateResult

---------------------------------------------------------------------------
(* deep_merge: properties *)

\* The arguments as trees.
ArgTrees == [i \in 1..Len(mgArgs) |-> Unfold(mgHeap, mgArgs[i])]

\* The pairwise merge the specification describes, on trees.
RECURSIVE MergeRule(_, _)
MergeRule(d, s) ==
    [map |-> [k \in DOMAIN d.map \cup DOMAIN s.map |->
        IF k \notin DOMAIN s.map THEN d.map[k]
        ELSE IF IsDict(s.map[k])
        THEN MergeRule(IF k \in DOMAIN d.map THEN d.map[k] ELSE [map |-> <<>>], s.map[k])
        ELSE IF IsList(s.map[k]) /\ k \in DOMAIN d.map
        THEN [seq |-> s.map[k].seq \o d.map[k].seq]
        ELSE s.map[k]]]

\* What the rule takes for granted: where the source has a Mapping the
\* destination has a Mapping or nothing, where the source has a Sequence the
\* destination has a Sequence or nothing.
RECURSIVE Presupposed(_, _)
Presupposed(d, s) ==
    \A k \in DOMAIN d.map \cap DOMAIN s.map :
        /\ IsDict(s.map[k]) => IsDict(d.map[k]) /\ Presupposed(d.map[k], s.map[k])
        /\ IsList(s.map[k]) => IsList(d.map[k])

Front(q) == SubSeq(q, 1, Len(q) - 1)

RECURSIVE FoldMerge(_)
FoldMerge(trees) ==
    IF Len(trees) = 1 THEN trees[1]
    ELSE MergeRule(FoldMerge(Front(trees)), trees[Len(trees)])

RECURSIVE FoldOk(_)
FoldOk(trees) ==
    \/ Len(trees) = 1
    \/ FoldOk(Front(trees)) /\ Presupposed(FoldMerge(Front(trees)), trees[Len(trees)])

\* C3: deep_merge of two or more Mappings is the left-to-right fold of the
\* pairwise merge: per key of the source, a Mapping is merged recursively
\* into the destination's Mapping (an empty one if the key is absent), a
\* Sequence is taken as it is if the key is absent and else put in front of
\* the destination's items, any other value replaces the destination's; the
\* keys of the destination alone are kept.
C3_MergeIsFold ==
    (mgPc = "returned" /\ Len(mgArgs) >= 2 /\ FoldOk(ArgTrees))
        => /\ ~ IsErr(mgRet)
           /\ Unfold(mgHeap, mgRet.val) = FoldMerge(ArgTrees)

\* C3 witness: deep_merge({a: [1], b: {a: 1}}, {a: [2], b: {b: 2}}) returned
\* {a: [2, 1], b: {a: 1, b: 2}}.
C3_Witness ==
    /\ mgPc = "returned" /\ Len(mgArgs) = 2 /\ ~ IsErr(mgRet)
    /\ ArgTrees[1] = [map |-> [k \in {"a", "b"} |->
                        IF k = "a" THEN [seq |-> <<[sc |-> 1]>>]
                        ELSE [map |-> [j \in {"a"} |-> [sc |-> 1]]]]]
    /\ ArgTrees[2] = [map |-> [k \in {"a", "b"} |->
                        IF k = "a" THEN [seq |-> <<[sc |-> 2]>>]
                        ELSE [map |-> [j \in {"b"} |-> [sc |-> 2]]]]]
    /\ Unfold(mgHeap, mgRet.val) =
          [map |-> [k \in {"a", "b"} |->
              IF k = "a" THEN [seq |-> <<[sc |-> 2], [sc |-> 1]>>]
              ELSE [map |-> [j \in {"a", "b"} |-> IF j = "a" THEN [sc |-> 1] ELSE [sc |-> 2]]]]]

\* Two arguments hold a Mapping and a non-Mapping at the same key.
TypeConflict(trees) ==
    \E i, j \in 1..Len(trees) :
        \E k \in DOMAIN trees[i].map \cap DOMAIN trees[j].map :
            IsDict(trees[i].map[k]) /\ ~ IsDict(trees[j].map[k])

\* C4: deep_merge fails whenever the same key holds a Mapping in one
\* argument and a non-Mapping in another, in either direction; it never
\* resolves such a conflict silently.
C4_TypeMismatchRaises ==
    (mgPc = "returned" /\ TypeConflict(ArgTrees)) => IsErr(mgRet)

\* C5: deep_merge leaves every object of its arguments as it was, its result
\* shares no list or dict with an argument, with one argument the result
\* equals the argument, and mutating the result afterwards changes no
\* argument, mutating an argument afterwards does not change the result.
C5_NoSharedContainers ==
    [][/\ (mgPc = "call" /\ mgPc' = "returned") =>
            /\ \A a \in 1..Len(mgHeap) : mgHeap'[a] = mgHeap[a]
            /\ ~ IsErr(mgRet') =>
                  /\ Reach(mgHeap', mgRet'.val) \cap ArgObjects(mgHeap') = {}
                  /\ Len(mgArgs) = 1 =>
                        Unfold(mgHeap', mgRet'.val) = Unfold(mgHeap, mgArgs[1])
       /\ (mgPc = "returned" /\ mgPc' = "resultMutated") =>
            \A i \in 1..Len(mgArgs) :
                Unfold(mgHeap', mgArgs[i]) = Unfold(mgHeap, mgArgs[i])
       /\ (mgPc = "returned" /\ mgPc' = "argMutated" /\ ~ IsErr(mgRet)) =>
            Unfold(mgHeap', mgRet.val) = Unfold(mgHeap, mgRet.val)
      ]_vars

\* C5 witness: deep_merge({}, {a: [2]}) took the list of its second argument
\* for the result, the caller then appended 9 to the result's list, and the
\* argument still holds [2].
C5_Witness ==
    /\ mgPc = "resultMutated" /\ Len(mgArgs) = 2
    /\ ArgTrees[1] = [map |-> <<>>]
    /\ ArgTrees[2] = [map |-> [k \in {"a"} |-> [seq |-> <<[sc |-> 2]>>]]]
    /\ Unfold(mgHeap, mgRet.val) = [map |-> [k \in {"a"} |-> [seq |-> <<[sc |-> 2], [sc |-> 9]>>]]]

---------------------------------------------------------------------------
(* Specifications *)

MgIdle == mgHeap = <<>> /\ mgArgs = <<>> /\ mgRet = None /\ mgPc = "idle"

DmIdle == dmHeap = <<>> /\ dmValue = None /\ dmFunc = "idle" /\ dmRet = None /\ dmPc = "idle"

MDInit == MDStart /\ FqIdle /\ MgIdle /\ DmIdle

SpecMD == MDInit /\ [][MDNext]_vars

DmInit == DmStart /\ MDIdle /\ FqIdle /\ MgIdle

SpecMap == DmInit /\ [][DmNext]_vars

MgInit == MgStart /\ MDIdle /\ FqIdle /\ DmIdle

SpecMerge == MgInit /\ [][MgNext]_vars

FqInit == FqStart /\ MDIdle /\ MgIdle /\ DmIdle

SpecFqn == FqInit /\ [][FqNext]_vars

=============================================================================
